---------------------------- MODULE Spec2Model ----------------------------
(***************************************************************************)
(* Don't Blink: the round state machine of src/game.js (class DontBlink)   *)
(* and the rank engine of the leaderboard module (src/unnamed/part_001).   *)
(*                                                                         *)
(* The browser's timer table is the variable timers: setTimeout adds a     *)
(* record [id, cb], clearTimeout(h) removes the record whose id is h, and  *)
(* a timer that fires leaves the table and runs its callback.  Timer ids   *)
(* are only ever compared for equality, so a new id is the least number    *)
(* that no pending timer and no handle field still holds.                  *)
(*                                                                         *)
(* games counts the runs of _startGame; the page is explored for MaxGames  *)
(* of them.                                                                *)
(***************************************************************************)
EXTENDS Integers, Sequences, FiniteSets

VARIABLES
    state,          \* this.state: "idle" | "waiting" | "ready" | "paused"
    roundNum,       \* this.roundNum
    scores,         \* this.scores
    changeAt,       \* this.changeAt: NoStamp (null) or the stamp of the real change
    bg,             \* the background _setBg last painted
    screen,         \* the overlay _showScreen last activated
    _avg,           \* this._avg
    _submitted,     \* this._submitted
    _myTs,          \* this._myTs
    _myRankResult,  \* this._myRankResult
    _waitTimer,     \* this._waitTimer  (a timer id or NoTimer)
    _fakeTimer,     \* this._fakeTimer
    _fakeRevert,    \* this._fakeRevert
    _pauseTimer,    \* this._pauseTimer
    timers,         \* the browser's pending timers: records [id, cb]
    store,          \* the 'scores' collection, in orderBy('score') order
    lbOp,           \* the leaderboard call last made: its name, inputs, result
    sub,            \* a submit() call in progress: pc, ref, score, result
    after,          \* the top-C query made right after submit() returned
    others,         \* how many entries other players have added
    copies,         \* the navigator.clipboard.writeText promises not yet settled
    games,          \* how many times _startGame has run since the page was loaded
    rankDisplay,    \* what _updateRankDisplay last put in $rankDisplay
    board,          \* what _renderLeaderboard last put in $leaderboard
    shows,          \* the _showResults calls waiting at their await
    saves,          \* the _submitToLeaderboard calls waiting at an await
    inserts         \* the documents the commits made since the last
                    \* finalization have added to the collection

gameVars == <<state, roundNum, scores, changeAt, bg, screen, _avg, _submitted,
              _myTs, _myRankResult, _waitTimer, _fakeTimer, _fakeRevert,
              _pauseTimer, timers>>
lbVars == <<store, lbOp, sub, after, others>>
envVars == <<copies, games>>
appVars == <<rankDisplay, board, shows, saves, inserts>>
vars == <<gameVars, lbVars, envVars, appVars>>

\* this.changeAt before the first real change.
NoStamp == "null"

\* A rank result that is null (peek, submit, this._myRankResult).
null == [isNull |-> TRUE]

\* this._myTs when it is null: document ids start at 1.
NoTs == 0

(***************************************************************************)
(* Config (CFG) and the bounds of the model.                               *)
(***************************************************************************)
ROUNDS == 5

\* A reaction time Math.round(performance.now() - changeAt) is drawn from 0..MaxMs.
MaxMs == 1

Elapsed == 0 .. MaxMs

RECURSIVE Sum(_)
Sum(s) == IF s = <<>> THEN 0 ELSE Head(s) + Sum(Tail(s))

\* Math.floor in the place of Math.round.
MathRound_floor(x, n) == x \div n

\* Math.round(x / n) for x >= 0, n > 0: the nearest integer, a half rounded up.
MathRound(x, n) == (2 * x + n) \div (2 * n)

(***************************************************************************)
(* Timers.                                                                 *)
(***************************************************************************)
\* A handle field that holds no timer (null): timer ids start at 1.
NoTimer == 0

Handles == {_waitTimer, _fakeTimer, _fakeRevert, _pauseTimer}

\* _clearAllTimers without "clearTimeout(this._fakeRevert)".
Cleared_forgetsRevert(tm) ==
    {t \in tm : t.id \notin {_waitTimer, _fakeTimer, _pauseTimer}}

\* clearTimeout on each of the four handles (_clearAllTimers, first half):
\* the timers left pending.  clearTimeout revokes the timer whose id it is
\* passed: a revoked timer never runs its callback.
Cleared(tm) == {t \in tm : t.id \notin Handles}

\* The id setTimeout returns when the table is tm and held are the handle values kept.
FreshId(tm, held) ==
    LET used == {t.id : t \in tm} \cup (held \ {NoTimer})
    IN  CHOOSE n \in 1 .. (Cardinality(used) + 1) :
            n \notin used /\ \A m \in 1 .. (n - 1) : m \in used

\* A timer fires only after every timer set earlier with a shorter delay:
\* the flash revert (FAKE_DURATION) precedes the real change set in the same
\* callback (FAKE_DURATION + at least REAL_AFTER_FAKE).  A pending revert
\* and a pending real change after a flash are always those of one callback:
\* _fakeRevert and _waitTimer hold them, and both are cleared together.
Due(t) == t.cb = "realAfterFake" => ~ \E u \in timers : u.cb = "fakeRevert"

(***************************************************************************)
(* Game flow.                                                              *)
(***************************************************************************)
\* _beginRound, entered with this.roundNum = rn; tm is the timer table then.
_beginRound(rn, tm, hasFake) ==
    LET left == Cleared(tm)
        id   == FreshId(left, {})
    IN  /\ roundNum' = rn + 1
        /\ state' = "waiting"
        /\ bg' = "from"
        /\ _fakeRevert' = NoTimer
        /\ _pauseTimer' = NoTimer
        /\ IF hasFake
             THEN /\ _fakeTimer' = id
                  /\ _waitTimer' = NoTimer
                  /\ timers' = left \cup {[id |-> id, cb |-> "fake"]}
             ELSE /\ _waitTimer' = id
                  /\ _fakeTimer' = NoTimer
                  /\ timers' = left \cup {[id |-> id, cb |-> "real"]}

\* The page is kept open for at most MaxGames starts.
MaxGames == 2

\* _startGame without "this.scores = []".
_startGame_keepScores ==
    /\ games < MaxGames
    /\ games' = games + 1
    /\ \E hasFake \in BOOLEAN : _beginRound(0, timers, hasFake)
    /\ screen' = "game"
    /\ UNCHANGED <<scores, changeAt, _avg, _submitted, _myTs, _myRankResult, lbVars, copies, appVars>>

\* _startGame without "this.roundNum = 0".
_startGame_keepRound ==
    /\ games < MaxGames
    /\ games' = games + 1
    /\ \E hasFake \in BOOLEAN : _beginRound(roundNum, timers, hasFake)
    /\ scores' = <<>>
    /\ screen' = "game"
    /\ UNCHANGED <<changeAt, _avg, _submitted, _myTs, _myRankResult, lbVars, copies, appVars>>

_startGame ==
    /\ games < MaxGames
    /\ games' = games + 1
    /\ \E hasFake \in BOOLEAN : _beginRound(0, timers, hasFake)
    /\ scores' = <<>>
    /\ screen' = "game"
    /\ UNCHANGED <<changeAt, _avg, _submitted, _myTs, _myRankResult, lbVars, copies, appVars>>

\* _triggerChange without "this.changeAt = performance.now()".
_triggerChange_noStamp ==
    /\ state' = "ready"
    /\ changeAt' = changeAt
    /\ bg' = "to"

_triggerChange ==
    /\ state' = "ready"
    /\ changeAt' = "stamp"
    /\ bg' = "to"

\* The callback of _fakeTimer without the setTimeout of the real change.
_fakeTimerFired_noRealTimer ==
    \E t \in timers :
        /\ t.cb = "fake" /\ Due(t)
        /\ IF state # "waiting"
             THEN /\ timers' = timers \ {t}
                  /\ UNCHANGED <<bg, _fakeRevert, _waitTimer>>
             ELSE LET rest == timers \ {t}
                      r    == FreshId(rest, Handles)
                  IN  /\ bg' = "fake"
                      /\ _fakeRevert' = r
                      /\ UNCHANGED _waitTimer
                      /\ timers' = rest \cup {[id |-> r, cb |-> "fakeRevert"]}
        /\ UNCHANGED <<state, roundNum, scores, changeAt, screen, _avg, _submitted,
                       _myTs, _myRankResult, _fakeTimer, _pauseTimer, lbVars, envVars, appVars>>

\* The callback of _fakeTimer (set in _beginRound): _triggerFake, then the real change is set.
_fakeTimerFired ==
    \E t \in timers :
        /\ t.cb = "fake" /\ Due(t)
        /\ IF state # "waiting"
             THEN /\ timers' = timers \ {t}
                  /\ UNCHANGED <<bg, _fakeRevert, _waitTimer>>
             ELSE LET rest == timers \ {t}
                      r    == FreshId(rest, Handles)
                      w    == FreshId(rest \cup {[id |-> r, cb |-> "fakeRevert"]},
                                      Handles)
                  IN  /\ bg' = "fake"
                      /\ _fakeRevert' = r
                      /\ _waitTimer' = w
                      /\ timers' = rest \cup {[id |-> r, cb |-> "fakeRevert"],
                                              [id |-> w, cb |-> "realAfterFake"]}
        /\ UNCHANGED <<state, roundNum, scores, changeAt, screen, _avg, _submitted,
                       _myTs, _myRankResult, _fakeTimer, _pauseTimer, lbVars, envVars, appVars>>

\* The callback of _fakeRevert (set in _triggerFake).
_fakeRevertFired ==
    \E t \in timers :
        /\ t.cb = "fakeRevert" /\ Due(t)
        /\ timers' = timers \ {t}
        /\ bg' = IF state = "waiting" THEN "from" ELSE bg
        /\ UNCHANGED <<state, roundNum, scores, changeAt, screen, _avg, _submitted,
                       _myTs, _myRankResult, _waitTimer, _fakeTimer, _fakeRevert,
                       _pauseTimer, lbVars, envVars, appVars>>

\* The callback of _waitTimer, set in _beginRound or after a flash.
_waitTimerFired ==
    \E t \in timers :
        /\ t.cb \in {"real", "realAfterFake"} /\ Due(t)
        /\ timers' = timers \ {t}
        /\ IF state # "waiting"
             THEN UNCHANGED <<state, changeAt, bg>>
             ELSE _triggerChange
        /\ UNCHANGED <<roundNum, scores, screen, _avg, _submitted, _myTs,
                       _myRankResult, _waitTimer, _fakeTimer, _fakeRevert,
                       _pauseTimer, lbVars, envVars, appVars>>

_tooEarly ==
    LET left == Cleared(timers)
        id   == FreshId(left, {})
    IN  /\ state' = "paused"
        /\ bg' = "tooEarly"
        /\ _waitTimer' = NoTimer /\ _fakeTimer' = NoTimer /\ _fakeRevert' = NoTimer
        /\ _pauseTimer' = id
        /\ timers' = left \cup {[id |-> id, cb |-> "tooEarlyPause"]}
        /\ UNCHANGED <<roundNum, scores, changeAt>>

_recordScore(ms) ==
    LET left == Cleared(timers)
        id   == FreshId(left, {})
    IN  /\ state' = "paused"
        /\ scores' = Append(scores, ms)
        /\ _waitTimer' = NoTimer /\ _fakeTimer' = NoTimer /\ _fakeRevert' = NoTimer
        /\ _pauseTimer' = id
        /\ timers' = left \cup {[id |-> id, cb |-> "resultPause"]}
        /\ UNCHANGED <<roundNum, changeAt, bg>>

\* _onGameClick that scores a click in every state but waiting.
_onGameClick_anyState ==
    /\ IF state = "waiting"
         THEN _tooEarly
         ELSE \E ms \in Elapsed : _recordScore(ms)
    /\ UNCHANGED <<screen, _avg, _submitted, _myTs, _myRankResult, lbVars, envVars, appVars>>

_onGameClick ==
    /\ IF state = "waiting"
         THEN _tooEarly
         ELSE IF state = "ready"
                THEN \E ms \in Elapsed : _recordScore(ms)
                ELSE UNCHANGED <<state, roundNum, scores, changeAt, bg, _waitTimer,
                                 _fakeTimer, _fakeRevert, _pauseTimer, timers>>
    /\ UNCHANGED <<screen, _avg, _submitted, _myTs, _myRankResult, lbVars, envVars, appVars>>

\* The pause callback of _tooEarly without "this.roundNum--".
_tooEarlyPauseFired_noDecrement ==
    \E t \in timers :
        /\ t.cb = "tooEarlyPause" /\ Due(t)
        /\ \E hasFake \in BOOLEAN :
               _beginRound(roundNum, timers \ {t}, hasFake)
        /\ UNCHANGED <<scores, changeAt, screen, _avg, _submitted, _myTs,
                       _myRankResult, lbVars, envVars, appVars>>

\* The callback of the pause timer set in _tooEarly: the same round again.
_tooEarlyPauseFired ==
    \E t \in timers :
        /\ t.cb = "tooEarlyPause" /\ Due(t)
        /\ \E hasFake \in BOOLEAN :
               _beginRound(roundNum - 1, timers \ {t}, hasFake)
        /\ UNCHANGED <<scores, changeAt, screen, _avg, _submitted, _myTs,
                       _myRankResult, lbVars, envVars, appVars>>

\* A response that has not arrived.
Pending == [pending |-> TRUE]

\* The calls in flight that an earlier finalization's session made: they are
\* marked (cur = FALSE) when _showResults runs again.  Calls that differ in
\* nothing are kept once.
Outdated(calls) == {[c EXCEPT !.cur = FALSE] : c \in calls}

\* _showResults up to its await: the fields and the rank display are reset,
\* and Leaderboard.peek(this._avg) and this._renderLeaderboard(null) are
\* both called, each up to the query it sends, before Promise.all is awaited.
_showResults ==
    /\ _avg' = MathRound(Sum(scores), Len(scores))
    /\ _submitted' = FALSE
    /\ _myTs' = NoTs
    /\ _myRankResult' = null
    /\ screen' = "results"
    /\ rankDisplay' = [cls |-> "blank"]
    /\ shows' = Outdated(shows) \cup
                    {[cur |-> TRUE, score |-> _avg', peek |-> Pending,
                      render |-> "pending"]}
    /\ saves' = Outdated(saves)
    /\ inserts' = 0
    /\ UNCHANGED board

\* The pause callback of _recordScore with ">" for ">=".
_resultPauseFired_offByOne ==
    \E t \in timers :
        /\ t.cb = "resultPause" /\ Due(t)
        /\ IF Len(scores) > ROUNDS
             THEN /\ _showResults
                  /\ timers' = timers \ {t}
                  /\ UNCHANGED <<state, roundNum, bg, _waitTimer, _fakeTimer,
                                 _fakeRevert, _pauseTimer>>
             ELSE /\ \E hasFake \in BOOLEAN :
                         _beginRound(roundNum, timers \ {t}, hasFake)
                  /\ UNCHANGED <<screen, _avg, _submitted, _myTs, _myRankResult,
                                 appVars>>
        /\ UNCHANGED <<scores, changeAt, lbVars, envVars>>

\* The pause callback of _recordScore that also sets the state idle at the end.
_resultPauseFired_idleAtEnd ==
    \E t \in timers :
        /\ t.cb = "resultPause" /\ Due(t)
        /\ IF Len(scores) >= ROUNDS
             THEN /\ _showResults
                  /\ timers' = timers \ {t}
                  /\ state' = "idle"
                  /\ UNCHANGED <<roundNum, bg, _waitTimer, _fakeTimer,
                                 _fakeRevert, _pauseTimer>>
             ELSE /\ \E hasFake \in BOOLEAN :
                         _beginRound(roundNum, timers \ {t}, hasFake)
                  /\ UNCHANGED <<screen, _avg, _submitted, _myTs, _myRankResult,
                                 appVars>>
        /\ UNCHANGED <<scores, changeAt, lbVars, envVars>>

\* The callback of the pause timer set in _recordScore.
_resultPauseFired ==
    \E t \in timers :
        /\ t.cb = "resultPause" /\ Due(t)
        /\ IF Len(scores) >= ROUNDS
             THEN /\ _showResults
                  /\ timers' = timers \ {t}
                  /\ UNCHANGED <<state, roundNum, bg, _waitTimer, _fakeTimer,
                                 _fakeRevert, _pauseTimer>>
             ELSE /\ \E hasFake \in BOOLEAN :
                         _beginRound(roundNum, timers \ {t}, hasFake)
                  /\ UNCHANGED <<screen, _avg, _submitted, _myTs, _myRankResult,
                                 appVars>>
        /\ UNCHANGED <<scores, changeAt, lbVars, envVars>>

\* _goToIntro without "this._clearAllTimers()".
_goToIntro_keepsTimers ==
    /\ timers' = timers
    /\ UNCHANGED <<_waitTimer, _fakeTimer, _fakeRevert, _pauseTimer>>
    /\ state' = "idle"
    /\ screen' = "intro"
    /\ UNCHANGED <<roundNum, scores, changeAt, bg, _avg, _submitted, _myTs,
                   _myRankResult, lbVars, envVars, appVars>>

_goToIntro ==
    /\ timers' = Cleared(timers)
    /\ _waitTimer' = NoTimer /\ _fakeTimer' = NoTimer
    /\ _fakeRevert' = NoTimer /\ _pauseTimer' = NoTimer
    /\ state' = "idle"
    /\ screen' = "intro"
    /\ UNCHANGED <<roundNum, scores, changeAt, bg, _avg, _submitted, _myTs,
                   _myRankResult, lbVars, envVars, appVars>>

\* The share button is bounded to MaxShares copies per FEEDBACK delay: the
\* writeText promises not yet settled and the share-feedback timers pending.
MaxShares == 1

SharesPending == copies + Cardinality({t \in timers : t.cb = "share"})

\* _flashShareFeedback: the feedback is shown for 2200 ms by a timer that no
\* handle field holds.
_flashShareFeedback ==
    timers' = timers \cup {[id |-> FreshId(timers, Handles), cb |-> "share"]}

\* _fallbackCopy: execCommand('copy') and then _flashShareFeedback, or, when
\* execCommand throws, window.prompt and no timer.
_fallbackCopy(copied) ==
    IF copied THEN _flashShareFeedback ELSE timers' = timers

\* _share, to its return.  Where navigator.clipboard.writeText is there
\* (clipboard) the call leaves a promise pending and the handler returns;
\* elsewhere _fallbackCopy runs within the handler.
_share(clipboard, copied) ==
    /\ SharesPending < MaxShares
    /\ IF clipboard
         THEN copies' = copies + 1 /\ timers' = timers
         ELSE copies' = copies /\ _fallbackCopy(copied)
    /\ UNCHANGED <<state, roundNum, scores, changeAt, bg, screen, _avg, _submitted,
                   _myTs, _myRankResult, _waitTimer, _fakeTimer, _fakeRevert,
                   _pauseTimer, lbVars, games, appVars>>

\* A writeText promise settles and its reaction runs, in whatever state the
\* game is by then: _flashShareFeedback when it resolved (.then),
\* _fallbackCopy when it was rejected (.catch).
writeTextSettles(resolved, copied) ==
    /\ copies > 0
    /\ copies' = copies - 1
    /\ IF resolved THEN _flashShareFeedback ELSE _fallbackCopy(copied)
    /\ UNCHANGED <<state, roundNum, scores, changeAt, bg, screen, _avg, _submitted,
                   _myTs, _myRankResult, _waitTimer, _fakeTimer, _fakeRevert,
                   _pauseTimer, lbVars, games, appVars>>

\* The callback of the timer set in _flashShareFeedback: it hides the feedback.
_shareTimerFired ==
    \E t \in timers :
        /\ t.cb = "share"
        /\ timers' = timers \ {t}
        /\ UNCHANGED <<state, roundNum, scores, changeAt, bg, screen, _avg, _submitted,
                       _myTs, _myRankResult, _waitTimer, _fakeTimer, _fakeRevert,
                       _pauseTimer, lbVars, envVars, appVars>>

(***************************************************************************)
(* Leaderboard (src/unnamed/part_001).  A document is [score, ts], ts its  *)
(* id; the name and createdAt fields take no part in any rank.  The store  *)
(* keeps the collection in the order orderBy('score') returns it: score    *)
(* ascending, equal scores in the order of their ids, which add() draws    *)
(* at random: a new document lands anywhere among the documents that have  *)
(* its score.                                                              *)
(***************************************************************************)
SIZE == 100

Min(a, b) == IF a < b THEN a ELSE b

\* The query without ".limit(SIZE)".
queryTop_noLimit(st) == st

\* col().orderBy('score').limit(SIZE).get(), when it succeeds.
queryTop(st) == SubSeq(st, 1, Min(SIZE, Len(st)))

\* The rank the map callback of withRanks leaves in its closure at index i
\* (1-based here: i > 1 is the code's i > 0, and i its i + 1), with dense ranks.
nextRank_dense(docs, i, rank) ==
    IF i > 1 /\ docs[i].score # docs[i - 1].score THEN rank + 1 ELSE rank

\* The rank the map callback of withRanks leaves in its closure at index i.
nextRank(docs, i, rank) ==
    IF i > 1 /\ docs[i].score # docs[i - 1].score THEN i ELSE rank

\* The closure variable rank of withRanks after the map callback has run on
\* the rows lo .. hi in turn, entered with the value rank.  The rows are run
\* as two halves, the first to its end before the second starts (r is its
\* value), which keeps the nesting of the evaluation low.
RECURSIVE rankOver(_, _, _, _)
rankOver(docs, lo, hi, rank) ==
    IF lo > hi
      THEN rank
      ELSE IF lo = hi
             THEN nextRank(docs, lo, rank)
             ELSE CHOOSE out \in
                      {rankOver(docs, (lo + hi) \div 2 + 1, hi, r) :
                          r \in {rankOver(docs, lo, (lo + hi) \div 2, rank)}} : TRUE

\* The closure variable rank after row i: "let rank = 1", then the rows 1 .. i.
rankAfter(docs, i) == rankOver(docs, 1, i, 1)

withRanks(docs) ==
    [i \in 1 .. Len(docs) |->
        [score |-> docs[i].score, ts |-> docs[i].ts, rank |-> rankAfter(docs, i)]]

\* docs.filter(d => d.score < score).length
better(docs, score) == Cardinality({i \in 1 .. Len(docs) : docs[i].score < score})

\* docs.some(d => d.score === score)
some(docs, score) == \E i \in 1 .. Len(docs) : docs[i].score = score

\* docs.filter(d => d.score === score).length
same(docs, score) == Cardinality({i \in 1 .. Len(docs) : docs[i].score = score})

\* submit with "<=" for "<" in the count of better scores.
submitRank_countsTies(docs, ref, score) ==
    IF ~ \E i \in 1 .. Len(docs) : docs[i].ts = ref
      THEN null
      ELSE [rank   |-> better(docs, score) + same(docs, score),
            isTied |-> same(docs, score) > 1,
            ts     |-> ref]

\* submit with ">= 1" for "> 1" in the tie test: the new entry ties with itself.
submitRank_tiedWithSelf(docs, ref, score) ==
    IF ~ \E i \in 1 .. Len(docs) : docs[i].ts = ref
      THEN null
      ELSE [rank   |-> better(docs, score) + 1,
            isTied |-> same(docs, score) >= 1,
            ts     |-> ref]

\* peek with "<=" for "<" in the count of better scores.
peekRank_countsTies(docs, score) ==
    IF Len(docs) >= SIZE /\ score > docs[Len(docs)].score
      THEN null
      ELSE [rank   |-> better(docs, score) + same(docs, score) + 1,
            isTied |-> some(docs, score)]

\* peek with ">=" for ">" in the test against the worst score of a full window.
peekRank_cutsTies(docs, score) ==
    IF Len(docs) >= SIZE /\ score >= docs[Len(docs)].score
      THEN null
      ELSE [rank |-> better(docs, score) + 1, isTied |-> some(docs, score)]

\* peek, from the documents its query returned.
peekRank(docs, score) ==
    IF Len(docs) >= SIZE /\ score > docs[Len(docs)].score
      THEN null
      ELSE [rank |-> better(docs, score) + 1, isTied |-> some(docs, score)]

\* submit, from the id add() returned and the documents the re-query returned.
submitRank(docs, ref, score) ==
    IF ~ \E i \in 1 .. Len(docs) : docs[i].ts = ref
      THEN null
      ELSE [rank   |-> better(docs, score) + 1,
            isTied |-> same(docs, score) > 1,
            ts     |-> ref]

\* Leaderboard.peek(score); ok: the query succeeds (otherwise the catch returns null).
peek(score, ok) ==
    /\ lbOp' = [op |-> "peek", score |-> score, ok |-> ok,
                res |-> IF ok THEN peekRank(queryTop(store), score) ELSE null]
    /\ UNCHANGED <<store, sub, after, others, gameVars, envVars, appVars>>

\* Leaderboard.getTop(n); ok: the query succeeds (otherwise the catch returns []).
getTop(n, ok) ==
    /\ lbOp' = [op |-> "getTop", n |-> n, ok |-> ok,
                res |-> IF ok
                          THEN LET ranked == withRanks(queryTop(store))
                               IN  SubSeq(ranked, 1, Min(n, Len(ranked)))
                          ELSE <<>>]
    /\ UNCHANGED <<store, sub, after, others, gameVars, envVars, appVars>>

\* The store with document e at place p.
InsertAt(st, p, e) ==
    [i \in 1 .. (Len(st) + 1) |->
        IF i < p THEN st[i] ELSE IF i = p THEN e ELSE st[i - 1]]

\* The places orderBy('score') can give a new document of that score.
Places(st, score) ==
    {p \in 1 .. (Len(st) + 1) :
        /\ (p > 1 => st[p - 1].score <= score)
        /\ (p <= Len(st) => score <= st[p].score)}

\* The id add() gives a new document: one no document has.
NewId(st) == Len(st) + 1

\* Leaderboard.submit(name, score) up to the end of add(); ok: add() succeeds
\* (otherwise the catch returns null and nothing was stored).
submitAdd(score, ok) ==
    /\ sub.pc = "none"
    /\ IF ok
         THEN \E p \in Places(store, score) :
                /\ store' = InsertAt(store, p, [score |-> score, ts |-> NewId(store)])
                /\ sub' = [pc |-> "added", score |-> score, ref |-> NewId(store),
                           res |-> null]
         ELSE /\ sub' = [pc |-> "done", score |-> score, ref |-> NoTs, res |-> null]
              /\ UNCHANGED store
    /\ UNCHANGED <<lbOp, after, others, gameVars, envVars, appVars>>

\* Leaderboard.submit from its re-query to its return; ok: the re-query succeeds.
submitRequery(ok) ==
    /\ sub.pc = "added"
    /\ sub' = [sub EXCEPT !.pc = "done",
                          !.res = IF ok
                                    THEN submitRank(queryTop(store), sub.ref, sub.score)
                                    ELSE null]
    /\ UNCHANGED <<store, lbOp, after, others, gameVars, envVars, appVars>>

(***************************************************************************)
(* The results screen (src/game.js): the rank display, the leaderboard     *)
(* list and the commit.  An async method runs to its next await in one     *)
(* step; each response that arrives is one step, which runs the method on  *)
(* to its next await or its end (promise reactions run before any other    *)
(* event).  A query is answered from the collection as it is when its      *)
(* response arrives.                                                       *)
(***************************************************************************)
\* game.js asks for the first ten rows: Leaderboard.getTop(10).
TopRows == 10

\* _updateRankDisplay(rankResult, submitted): the text and class it sets.
_updateRankDisplay(rankResult, submitted) ==
    IF rankResult = null
      THEN [cls  |-> "unranked",
            text |-> IF submitted THEN "Outside the top 100" ELSE ""]
      ELSE [cls    |-> IF submitted THEN "confirmed" ELSE "preview",
            rank   |-> rankResult.rank,
            isTied |-> rankResult.isTied]

\* What Leaderboard.getTop(n) returns; ok: its query succeeds.
topRows(st, n, ok) ==
    IF ok
      THEN LET ranked == withRanks(queryTop(st))
           IN  SubSeq(ranked, 1, Min(n, Len(ranked)))
      ELSE <<>>

\* The list _renderLeaderboard(myTs) writes from the entries getTop returned:
\* the rows, the row marked as the player's, and the row appended when the
\* player's entry is not among them and a rank result is stored.
_renderLeaderboard(entries, myTs) ==
    IF Len(entries) = 0
      THEN [kind |-> "empty"]
      ELSE [kind |-> "rows",
            rows |-> entries,
            you  |-> {i \in 1 .. Len(entries) : myTs # NoTs /\ entries[i].ts = myTs},
            own  |-> IF /\ myTs # NoTs
                        /\ ~ \E i \in 1 .. Len(entries) : entries[i].ts = myTs
                        /\ _myRankResult # null
                       THEN [rank |-> _myRankResult.rank, score |-> _avg]
                       ELSE null]

\* _submitToLeaderboard without "if (this._submitted) return".
_submitToLeaderboard_noGuard(name) ==
    IF name = ""
      THEN UNCHANGED vars
      ELSE /\ _submitted' = TRUE
           /\ saves' = saves \cup {[cur |-> TRUE, pc |-> "add", score |-> _avg,
                                    ref |-> NoTs, myTs |-> NoTs]}
           /\ UNCHANGED <<state, roundNum, scores, changeAt, bg, screen, _avg,
                          _myTs, _myRankResult, _waitTimer, _fakeTimer,
                          _fakeRevert, _pauseTimer, timers, lbVars, envVars,
                          rankDisplay, board, shows, inserts>>

\* _submitToLeaderboard up to its first await: name is the trimmed value of
\* the name field; Leaderboard.submit(name, this._avg) is called up to add().
_submitToLeaderboard(name) ==
    IF _submitted \/ name = ""
      THEN UNCHANGED vars
      ELSE /\ _submitted' = TRUE
           /\ saves' = saves \cup {[cur |-> TRUE, pc |-> "add", score |-> _avg,
                                    ref |-> NoTs, myTs |-> NoTs]}
           /\ UNCHANGED <<state, roundNum, scores, changeAt, bg, screen, _avg,
                          _myTs, _myRankResult, _waitTimer, _fakeTimer,
                          _fakeRevert, _pauseTimer, timers, lbVars, envVars,
                          rankDisplay, board, shows, inserts>>

\* The response to the query of peek arrives for the _showResults call c
\* and the promise of peek rejects on a failure (no try and catch): the
\* await of _showResults throws and the call ends there.
peekArrives_noCatch(c, ok) ==
    /\ c \in shows /\ c.peek = Pending
    /\ LET r == peekRank(queryTop(store), c.score)
       IN  IF ~ ok
             THEN /\ shows' = shows \ {c}
                  /\ UNCHANGED rankDisplay
             ELSE IF c.render = "done"
                    THEN /\ shows' = shows \ {c}
                         /\ rankDisplay' = _updateRankDisplay(r, FALSE)
                    ELSE /\ shows' = (shows \ {c}) \cup {[c EXCEPT !.peek = r]}
                         /\ UNCHANGED rankDisplay
    /\ UNCHANGED <<gameVars, lbVars, envVars, board, saves, inserts>>

\* The response to the query of peek arrives for the _showResults call c
\* and the preview is shown at once, not after Promise.all.
peekArrives_eager(c, ok) ==
    /\ c \in shows /\ c.peek = Pending
    /\ LET r == IF ok THEN peekRank(queryTop(store), c.score) ELSE null
       IN  /\ rankDisplay' = _updateRankDisplay(r, FALSE)
           /\ IF c.render = "done"
                THEN shows' = shows \ {c}
                ELSE shows' = (shows \ {c}) \cup {[c EXCEPT !.peek = r]}
    /\ UNCHANGED <<gameVars, lbVars, envVars, board, saves, inserts>>

\* The response to the query of peek arrives for the _showResults call c
\* (ok: the query succeeded): peek returns; if _renderLeaderboard has
\* returned too, Promise.all resolves and _showResults shows the preview.
peekArrives(c, ok) ==
    /\ c \in shows /\ c.peek = Pending
    /\ LET r == IF ok THEN peekRank(queryTop(store), c.score) ELSE null
       IN  IF c.render = "done"
             THEN /\ shows' = shows \ {c}
                  /\ rankDisplay' = _updateRankDisplay(r, FALSE)
             ELSE /\ shows' = (shows \ {c}) \cup {[c EXCEPT !.peek = r]}
                  /\ UNCHANGED rankDisplay
    /\ UNCHANGED <<gameVars, lbVars, envVars, board, saves, inserts>>

\* The response to the query of getTop arrives for the _showResults call c:
\* _renderLeaderboard(null) writes the list and returns; if peek has returned
\* too, Promise.all resolves and _showResults shows the preview.
topArrives(c, ok) ==
    /\ c \in shows /\ c.render = "pending"
    /\ board' = _renderLeaderboard(topRows(store, TopRows, ok), NoTs)
    /\ IF c.peek # Pending
         THEN /\ shows' = shows \ {c}
              /\ rankDisplay' = _updateRankDisplay(c.peek, FALSE)
         ELSE /\ shows' = (shows \ {c}) \cup {[c EXCEPT !.render = "done"]}
              /\ UNCHANGED rankDisplay
    /\ UNCHANGED <<gameVars, lbVars, envVars, saves, inserts>>

\* _submitToLeaderboard from the return of submit (result) to its second
\* await, for the call c: the result is stored and shown, and
\* _renderLeaderboard(this._myTs) is called up to the query of getTop.
submitReturns(c, result) ==
    /\ _myRankResult' = result
    /\ _myTs' = IF result # null THEN result.ts ELSE _myTs
    /\ rankDisplay' = _updateRankDisplay(result, TRUE)
    /\ saves' = (saves \ {c}) \cup {[c EXCEPT !.pc = "render", !.myTs = _myTs']}

\* The response to add() arrives for the _submitToLeaderboard call c: the
\* document is in the collection and submit sends its re-query, or add()
\* failed and submit returns null.
addArrives(c, ok) ==
    /\ c \in saves /\ c.pc = "add"
    /\ IF ok
         THEN /\ \E p \in Places(store, c.score) :
                    store' = InsertAt(store, p, [score |-> c.score,
                                                 ts |-> NewId(store)])
              /\ saves' = (saves \ {c}) \cup
                             {[c EXCEPT !.pc = "requery", !.ref = NewId(store)]}
              /\ inserts' = IF c.cur THEN inserts + 1 ELSE inserts
              /\ UNCHANGED <<_myRankResult, _myTs, rankDisplay>>
         ELSE /\ submitReturns(c, null)
              /\ UNCHANGED <<store, inserts>>
    /\ UNCHANGED <<state, roundNum, scores, changeAt, bg, screen, _avg,
                   _submitted, _waitTimer, _fakeTimer, _fakeRevert, _pauseTimer,
                   timers, lbOp, sub, after, others, envVars, board, shows>>

\* The response to the re-query of submit arrives for the call c.
requeryArrives(c, ok) ==
    /\ c \in saves /\ c.pc = "requery"
    /\ submitReturns(c, IF ok THEN submitRank(queryTop(store), c.ref, c.score)
                              ELSE null)
    /\ UNCHANGED <<state, roundNum, scores, changeAt, bg, screen, _avg,
                   _submitted, _waitTimer, _fakeTimer, _fakeRevert, _pauseTimer,
                   timers, lbVars, envVars, board, shows, inserts>>

\* The response to the query of getTop arrives for the _submitToLeaderboard
\* call c: _renderLeaderboard(myTs) writes the list and the call ends.
savedTopArrives(c, ok) ==
    /\ c \in saves /\ c.pc = "render"
    /\ board' = _renderLeaderboard(topRows(store, TopRows, ok), c.myTs)
    /\ saves' = saves \ {c}
    /\ UNCHANGED <<gameVars, lbVars, envVars, rankDisplay, shows, inserts>>

\* The state the constructor leaves.
GameInit ==
    /\ state = "idle" /\ roundNum = 0 /\ scores = <<>> /\ changeAt = NoStamp
    /\ bg = "none" /\ screen = "intro"
    /\ _avg = 0 /\ _submitted = FALSE /\ _myTs = NoTs /\ _myRankResult = null
    /\ _waitTimer = NoTimer /\ _fakeTimer = NoTimer
    /\ _fakeRevert = NoTimer /\ _pauseTimer = NoTimer
    /\ timers = {}
    /\ rankDisplay = [cls |-> "blank"] /\ board = [kind |-> "none"]
    /\ shows = {} /\ saves = {} /\ inserts = 0

LbIdle ==
    /\ store = <<>>
    /\ lbOp = [op |-> "none"]
    /\ sub = [pc |-> "none"]
    /\ after = [pc |-> "none"]
    /\ others = 0
    /\ copies = 0
    /\ games = 0

(***************************************************************************)
(* The inputs of the leaderboard specifications.  A collection is a run of *)
(* pad documents of score 0 followed by a tail of at most MaxTail          *)
(* documents with scores in StoreScores; pad is small or close to SIZE, so  *)
(* the window is empty, short, exactly full or overfull.                   *)
(***************************************************************************)
MaxScore == 2
MaxTail == 3
MaxSubTail == 2
MaxOthers == 1

StoreScores == {2 * k : k \in 1 .. MaxScore}
QueryScores == 0 .. (2 * MaxScore + 1)
SubmitScores == 1 .. (2 * MaxScore + 1)

IsSorted(s) == \A i \in 1 .. (Len(s) - 1) : s[i] <= s[i + 1]

Tails(n) == {t \in UNION {[1 .. k -> StoreScores] : k \in 0 .. n} : IsSorted(t)}

Pads(n) == (0 .. n) \cup ((SIZE - n) .. SIZE)

MkStore(pad, tail) ==
    [i \in 1 .. (pad + Len(tail)) |->
        [score |-> IF i <= pad THEN 0 ELSE tail[i - pad], ts |-> i]]

Stores(n) == {MkStore(pad, tail) : pad \in Pads(n), tail \in Tails(n)}

\* The pure rank engine: peek and getTop over every collection of Stores(MaxTail).
InitRank ==
    /\ GameInit
    /\ store \in Stores(MaxTail)
    /\ lbOp = [op |-> "none"]
    /\ sub = [pc |-> "none"]
    /\ after = [pc |-> "none"]
    /\ others = 0
    /\ copies = 0
    /\ games = 0

peekCall == \E score \in QueryScores, ok \in BOOLEAN : peek(score, ok)

getTopCall == \E n \in {TopRows, SIZE}, ok \in BOOLEAN : getTop(n, ok)

NextRank == peekCall \/ getTopCall

SpecRank == InitRank /\ [][NextRank]_vars

\* One submit() call, other players adding documents meanwhile, and the
\* top-C query that follows the call's return.
InitSubmit ==
    /\ GameInit
    /\ store \in Stores(MaxSubTail)
    /\ lbOp = [op |-> "none"]
    /\ sub = [pc |-> "none"]
    /\ after = [pc |-> "none"]
    /\ others = 0
    /\ copies = 0
    /\ games = 0

submitAddCall == \E score \in SubmitScores, ok \in BOOLEAN : submitAdd(score, ok)

submitRequeryCall == \E ok \in BOOLEAN : submitRequery(ok)

\* Another player's add(): the collection is shared.
otherAdd ==
    /\ others < MaxOthers
    /\ sub.pc # "none"
    /\ after.pc = "none"
    /\ \E score \in StoreScores : \E p \in Places(store, score) :
           store' = InsertAt(store, p, [score |-> score, ts |-> NewId(store)])
    /\ others' = others + 1
    /\ UNCHANGED <<lbOp, sub, after, gameVars, envVars, appVars>>

\* queryAscending(C) right after submit() has returned.
followQuery ==
    /\ sub.pc = "done"
    /\ after.pc = "none"
    /\ after' = [pc |-> "done", docs |-> queryTop(store)]
    /\ UNCHANGED <<store, lbOp, sub, others, gameVars, envVars, appVars>>

NextSubmit == submitAddCall \/ submitRequeryCall \/ otherAdd \/ followQuery

SpecSubmit == InitSubmit /\ [][NextSubmit]_vars

\* The three operations of the rank engine over one collection: one submit()
\* call and, at any point of it, one peek or getTop call (the two only read
\* the collection, so a second call returns nothing a first one cannot).
onePeek == lbOp.op = "none" /\ peekCall

oneGetTop == lbOp.op = "none" /\ getTopCall

NextEngine == onePeek \/ oneGetTop \/ submitAddCall \/ submitRequeryCall

SpecEngine == InitSubmit /\ [][NextEngine]_vars

(***************************************************************************)
(* The events of the page (_bindEvents) and of the store.                  *)
(***************************************************************************)
\* The player acts on what the screen shows: the start button is on the
\* intro overlay, the play-again, save and share buttons on the results
\* overlay, and the game area takes the clicks while no overlay is up.
startClick == screen = "intro" /\ _startGame

gameClick == screen = "game" /\ _onGameClick

playAgainClick == screen = "results" /\ _goToIntro

shareClick ==
    /\ screen = "results"
    /\ \E clipboard \in BOOLEAN, copied \in BOOLEAN : _share(clipboard, copied)

\* The browser settles a pending copy.
copySettles == \E resolved \in BOOLEAN, copied \in BOOLEAN : writeTextSettles(resolved, copied)

Names == {"", "a"}

\* The save button and the Enter key of the name field, on the results overlay.
saveClick == screen = "results" /\ \E name \in Names : _submitToLeaderboard(name)

\* A player whose reaction times within one session are all the same: the
\* average is then that time, and the rounds differ in nothing else.
Steady == \A i \in 1 .. Len(scores') : scores'[i] = scores'[1]

steadyClick == gameClick /\ Steady

\* The click handler called in any state, by the steady player.
steadyGameClick == _onGameClick /\ Steady

earlyClick == state = "waiting" /\ gameClick

readyClick == state = "ready" /\ gameClick

\* No call to the store is in flight.
quiet == shows = {} /\ saves = {}

\* A player who starts the next session when every response of the last
\* one has arrived, saved or not: the calls in flight are those of one
\* session.
quietStart == quiet /\ startClick

\* The store takes at most MaxDocs documents (an add() beyond that stays
\* unanswered or fails).
MaxDocs == 2

peekResponse == \E c \in shows, ok \in BOOLEAN : peekArrives(c, ok)

topResponse == \E c \in shows, ok \in BOOLEAN : topArrives(c, ok)

addResponse ==
    \E c \in saves, ok \in BOOLEAN :
        /\ ok => Len(store) < MaxDocs
        /\ addArrives(c, ok)

requeryResponse == \E c \in saves, ok \in BOOLEAN : requeryArrives(c, ok)

savedTopResponse == \E c \in saves, ok \in BOOLEAN : savedTopArrives(c, ok)

(***************************************************************************)
(* The specifications of the game.                                         *)
(***************************************************************************)
Init == GameInit /\ LbIdle

\* The whole program under every interleaving of its handlers: start, click
\* and reset are taken in every state, whatever the screen shows and
\* whatever calls to the store are in flight.
Next ==
    \/ _startGame
    \/ steadyGameClick
    \/ _goToIntro
    \/ shareClick
    \/ saveClick
    \/ _fakeTimerFired
    \/ _fakeRevertFired
    \/ _waitTimerFired
    \/ _tooEarlyPauseFired
    \/ _resultPauseFired
    \/ copySettles
    \/ _shareTimerFired
    \/ peekResponse
    \/ topResponse
    \/ addResponse
    \/ requeryResponse
    \/ savedTopResponse

Spec == Init /\ [][Next]_vars

\* The whole program with a screen-guided, steady player, who starts a
\* session when the responses of the last one are in; the collection starts
\* empty.
InitBoard ==
    /\ GameInit
    /\ store = <<>>
    /\ lbOp = [op |-> "none"] /\ sub = [pc |-> "none"]
    /\ after = [pc |-> "none"] /\ others = 0
    /\ copies = 0
    /\ games = 0

NextBoard ==
    \/ quietStart
    \/ steadyClick
    \/ playAgainClick
    \/ shareClick
    \/ saveClick
    \/ _fakeTimerFired
    \/ _fakeRevertFired
    \/ _waitTimerFired
    \/ _tooEarlyPauseFired
    \/ _resultPauseFired
    \/ copySettles
    \/ _shareTimerFired
    \/ peekResponse
    \/ topResponse
    \/ addResponse
    \/ requeryResponse
    \/ savedTopResponse

SpecBoard == InitBoard /\ [][NextBoard]_vars

\* One session with no reset, under the scheduling of a browser: a pending
\* timer fires in the end (each of the five round callbacks), and the
\* player clicks in the end when the state is ready and clicks while
\* waiting only finitely often.
NextLive ==
    \/ startClick
    \/ gameClick
    \/ shareClick
    \/ saveClick
    \/ _fakeTimerFired
    \/ _fakeRevertFired
    \/ _waitTimerFired
    \/ _tooEarlyPauseFired
    \/ _resultPauseFired
    \/ copySettles
    \/ _shareTimerFired
    \/ peekResponse
    \/ topResponse
    \/ addResponse
    \/ requeryResponse
    \/ savedTopResponse

Fairness ==
    /\ WF_vars(_fakeTimerFired)
    /\ WF_vars(_fakeRevertFired)
    /\ WF_vars(_waitTimerFired)
    /\ WF_vars(_tooEarlyPauseFired)
    /\ WF_vars(_resultPauseFired)
    /\ WF_vars(readyClick)
    /\ <>[][~ earlyClick]_vars

SpecLive == Init /\ [][NextLive]_vars /\ Fairness

(***************************************************************************)
(* The round state machine: claims C1 to C6.                               *)
(***************************************************************************)
RoundTimerKinds == {"fake", "fakeRevert", "real", "realAfterFake"}

PauseTimerKinds == {"tooEarlyPause", "resultPause"}

\* The timers of the round scheduler in the table tm: those the four handle
\* fields hold, the share-feedback timer left out.
Scheduled(tm) == {t \in tm : t.cb \in RoundTimerKinds \cup PauseTimerKinds}

EarlyPausePending(tm) == \E t \in tm : t.cb = "tooEarlyPause"

\* The step in which the session is finalized: _showResults runs.
Finalizes == _resultPauseFired /\ screen' = "results"

\* C1: a click while waiting pauses the round, leaves roundNum and scores as
\* they are and cancels every flash, flash-revert and real-change timer; the
\* round number does not change while the early-click pause timer is pending,
\* and when that timer fires the same round begins again in state waiting.
C1_EarlyClickRetriesSameRound ==
    [][ /\ (_onGameClick /\ state = "waiting") =>
              /\ state' = "paused"
              /\ roundNum' = roundNum
              /\ scores' = scores
              /\ \A t \in timers' : t.cb \notin RoundTimerKinds
              /\ EarlyPausePending(timers')
        /\ (EarlyPausePending(timers) /\ EarlyPausePending(timers')) =>
              roundNum' = roundNum
        /\ _tooEarlyPauseFired =>
              /\ state' = "waiting"
              /\ roundNum' = roundNum
              /\ scores' = scores
              /\ \E t \in timers' : t.cb \in {"fake", "real"} ]_vars

\* An early click in round 3 is being held: its pause timer is pending.
C1_Witness ==
    /\ state = "paused" /\ EarlyPausePending(timers)
    /\ roundNum = 3 /\ Len(scores) = 2

\* C2: a click while ready pauses the round and appends exactly one value to
\* scores; when the result pause timer fires, round roundNum + 1 begins if
\* roundNum < ROUNDS, and otherwise roundNum = ROUNDS, the session is
\* finalized and no round begins (no timer of the scheduler is left pending).
C2_ScoredClickAdvancesOrFinalizes ==
    [][ /\ (_onGameClick /\ state = "ready") =>
              /\ state' = "paused"
              /\ Len(scores') = Len(scores) + 1
              /\ SubSeq(scores', 1, Len(scores)) = scores
        /\ _resultPauseFired =>
              IF roundNum < ROUNDS
                THEN /\ state' = "waiting"
                     /\ roundNum' = roundNum + 1
                     /\ screen' = screen /\ _avg' = _avg
                ELSE /\ roundNum = ROUNDS
                     /\ screen' = "results"
                     /\ _avg' = MathRound(Sum(scores), Len(scores))
                     /\ state' = "paused" /\ roundNum' = roundNum
                     /\ Scheduled(timers') = {} ]_vars

\* The session has been finalized after its fifth scored round.
C2_Witness ==
    /\ screen = "results" /\ state = "paused"
    /\ Len(scores) = ROUNDS /\ roundNum = ROUNDS /\ timers = {}

\* C3: a click while idle or paused changes neither state, roundNum, scores,
\* changeAt nor the pending timers.
C3_ClickIgnoredWhenIdleOrPaused ==
    [][ (_onGameClick /\ state \in {"idle", "paused"}) =>
            UNCHANGED <<state, roundNum, scores, changeAt, timers, _waitTimer,
                        _fakeTimer, _fakeRevert, _pauseTimer>> ]_vars

\* A scored round is being held (a pause timer is pending): a click here is ignored.
C3_Witness ==
    /\ state = "paused" /\ Len(scores) = 1
    /\ \E t \in timers : t.cb = "resultPause"

\* C4: scores never holds more than ROUNDS values.
C4_AtMostRoundsScores == Len(scores) <= ROUNDS

\* Five values are recorded, the fifth click has just been scored.
C4_Witness ==
    /\ Len(scores) = ROUNDS /\ state = "paused"
    /\ \E t \in timers : t.cb = "resultPause"

\* C5 as stated: changeAt is set if and only if state is ready.
C5_Original == (changeAt # NoStamp) <=> (state = "ready")

\* C5, amended: changeAt is set whenever state is ready; it is written only
\* by the real change (the step from waiting to ready) and is never cleared,
\* so it is unset before the first real change and set ever after.
C5_ChangeAtSetWhenReadyNeverCleared ==
    /\ [](state = "ready" => changeAt # NoStamp)
    /\ [][ /\ (changeAt # NoStamp => changeAt' # NoStamp)
           /\ (changeAt' # changeAt => (state = "waiting" /\ state' = "ready"))
           /\ ((state # "ready" /\ state' = "ready") => changeAt' # NoStamp) ]_vars

\* A later round is waiting for its change and changeAt still holds the last stamp.
C5_Witness == state = "waiting" /\ roundNum = 2 /\ changeAt # NoStamp

\* C6 as stated: the step that finalizes the session sets the state idle.
C6_Original == [][ Finalizes => state' = "idle" ]_vars

\* C6, amended: the step that finalizes the session leaves the state paused;
\* the state becomes idle only by reset (_goToIntro), which sets it idle from
\* every state; paused is left only towards waiting or idle.
C6_FinalizedStaysPausedUntilReset ==
    [][ /\ (Finalizes => (state = "paused" /\ state' = "paused"))
        /\ (_goToIntro => state' = "idle")
        /\ ((state # "idle" /\ state' = "idle") => _goToIntro)
        /\ ((state = "paused" /\ state' # "paused") =>
                state' \in {"waiting", "idle"}) ]_vars

\* The results screen is up and the round state is still paused.
C6_Witness ==
    /\ screen = "results" /\ state = "paused" /\ timers = {}
    /\ _avg = MathRound(Sum(scores), ROUNDS)

(***************************************************************************)
(* The rank engine: claims C7 to C10.                                      *)
(***************************************************************************)
\* C7: the rows getTop returns are the first rows of the window, and
\* withRanks gives the first row rank 1 and every later row the rank of the
\* row before it if their scores are equal, and otherwise its own 1-based
\* position (scores [10,10,20,30] get ranks [1,1,3,4]).
C7_WithRanksIsStandardCompetitionRanking ==
    (lbOp.op = "getTop" /\ lbOp.ok) =>
        \A docs \in {queryTop(store)} : \A rows \in {lbOp.res} :
            /\ Len(rows) = Min(lbOp.n, Len(docs))
            /\ \A i \in 1 .. Len(rows) :
                  /\ rows[i].score = docs[i].score /\ rows[i].ts = docs[i].ts
                  /\ rows[i].rank =
                        IF i = 1 THEN 1
                        ELSE IF rows[i].score = rows[i - 1].score
                               THEN rows[i - 1].rank
                               ELSE i

\* getTop has ranked a window whose scores go a, a, b, c: ranks 1, 1, 3, 4.
C7_Witness ==
    /\ lbOp.op = "getTop" /\ lbOp.ok
    /\ Len(lbOp.res) = 4
    /\ lbOp.res[1].score = lbOp.res[2].score
    /\ lbOp.res[2].score < lbOp.res[3].score
    /\ lbOp.res[3].score < lbOp.res[4].score
    /\ <<lbOp.res[1].rank, lbOp.res[2].rank, lbOp.res[3].rank, lbOp.res[4].rank>>
          = <<1, 1, 3, 4>>

\* C8: whenever peek returns a rank, the rank is 1 + the number of window
\* entries with a score strictly less than the query score, and isTied is
\* true exactly if some window entry has the query score.
C8_PeekRankCountsStrictlyBetter ==
    (lbOp.op = "peek" /\ lbOp.res # null) =>
        \A docs \in {queryTop(store)} :
            /\ lbOp.res.rank =
                  1 + Cardinality({i \in 1 .. Len(docs) : docs[i].score < lbOp.score})
            /\ lbOp.res.isTied <=>
                  \E i \in 1 .. Len(docs) : docs[i].score = lbOp.score

\* The window is a, a, b and peek of a score between a and b gave rank 3, not tied.
C8_Witness ==
    /\ lbOp.op = "peek"
    /\ Len(store) = 3
    /\ store[1].score = store[2].score
    /\ store[2].score < lbOp.score /\ lbOp.score < store[3].score
    /\ lbOp.res = [rank |-> 3, isTied |-> FALSE]

\* C9: when its query succeeds, peek returns null exactly if the window
\* holds SIZE entries and the score is strictly greater than the last
\* (worst) score of the window; an empty window gives rank 1, not tied.
C9_PeekUnrankedOnlyBeyondFullWindow ==
    (lbOp.op = "peek" /\ lbOp.ok) =>
        \A docs \in {queryTop(store)} :
            /\ lbOp.res = null <=>
                  (Len(docs) = SIZE /\ lbOp.score > docs[Len(docs)].score)
            /\ Len(docs) = 0 => lbOp.res = [rank |-> 1, isTied |-> FALSE]

\* peek of a score worse than the worst of a full window returned null.
C9_Witness ==
    /\ lbOp.op = "peek" /\ lbOp.ok
    /\ Len(store) >= SIZE
    /\ lbOp.score > store[SIZE].score
    /\ lbOp.res = null

\* A full window whose worst score is the query score still ranks it.
C9_WitnessTieAtCut ==
    /\ lbOp.op = "peek" /\ lbOp.ok
    /\ Len(store) >= SIZE
    /\ lbOp.score = store[SIZE].score
    /\ lbOp.res # null

\* C10: the top-C query that follows submit holds the entry submit added if
\* and only if submit returned a rank (not null), whatever other players
\* add meanwhile and whether or not the re-query of submit succeeds.
C10_SubmitRankedIffInFollowingWindow ==
    after.pc = "done" =>
        ((\E i \in 1 .. Len(after.docs) : after.docs[i].ts = sub.ref)
            <=> sub.res # null)

\* C11: when submit returns a rank, the rank is 1 + the number of entries of
\* the re-queried window with a score strictly less than the submitted score,
\* and isTied is true exactly if more than one entry of that window (the new
\* entry counted) has the submitted score.
C11_SubmitRankCountsStrictlyBetter ==
    [][ (submitRequeryCall /\ sub'.res # null) =>
            \A docs \in {queryTop(store)} :
                /\ sub'.res.rank =
                      1 + Cardinality({i \in 1 .. Len(docs) :
                                          docs[i].score < sub.score})
                /\ sub'.res.isTied <=>
                      Cardinality({i \in 1 .. Len(docs) :
                                      docs[i].score = sub.score}) > 1
                /\ sub'.res.ts = sub.ref ]_vars

\* submit of a score that only the new entry has, behind three better
\* entries: rank 4, not tied.
C11_Witness ==
    /\ sub.pc = "done" /\ sub.res # null /\ others = 0
    /\ Len(store) = 4
    /\ sub.res.rank = 4 /\ ~ sub.res.isTied
    /\ store[4].ts = sub.ref

\* submit of a score another entry already has: tied.
C11_WitnessTied ==
    /\ sub.pc = "done" /\ sub.res # null /\ others = 0
    /\ sub.res.isTied /\ sub.res.rank = 2
    /\ Cardinality({i \in 1 .. Len(store) : store[i].score = sub.score}) = 2

\* C12: every rank of the rank engine is at least 1 and at most SIZE: the
\* rank of each row withRanks ranks (getTop over a window of at most SIZE
\* entries), the rank of every ranked result of peek, and the rank of every
\* ranked result of submit.
C12_RanksWithinOneAndSize ==
    /\ (lbOp.op = "getTop" /\ lbOp.ok) =>
          \A i \in 1 .. Len(lbOp.res) :
              1 <= lbOp.res[i].rank /\ lbOp.res[i].rank <= SIZE
    /\ (lbOp.op = "peek" /\ lbOp.res # null) =>
          (1 <= lbOp.res.rank /\ lbOp.res.rank <= SIZE)
    /\ (sub.pc = "done" /\ sub.res # null) =>
          (1 <= sub.res.rank /\ sub.res.rank <= SIZE)

\* The last row of a full window has rank SIZE, peek of a score between the
\* last two scores of a full window gave rank SIZE, and so did submit.
C12_Witness ==
    /\ lbOp.op = "peek" /\ lbOp.res # null /\ lbOp.res.rank = SIZE
    /\ sub.pc = "done" /\ sub.res # null /\ sub.res.rank = SIZE

\* getTop over a full window ranked its last row SIZE.
C12_WitnessLastRow ==
    /\ lbOp.op = "getTop" /\ lbOp.ok /\ Len(lbOp.res) = SIZE
    /\ lbOp.res[SIZE].rank = SIZE

(***************************************************************************)
(* The average and the timers: claims C16, C19 and C20.                    *)
(***************************************************************************)
\* C16: the step that finalizes the session takes the average over exactly
\* ROUNDS recorded times, and the average is their arithmetic mean rounded
\* to the nearest integer (a half upwards): avg - 1/2 <= mean < avg + 1/2;
\* no other step changes the average; the times 180, 150, 220, 190, 160
\* give 180.
C16_AverageIsRoundedMeanOfAllRounds ==
    [][ /\ Finalizes =>
              /\ Len(scores) = ROUNDS
              /\ 2 * ROUNDS * _avg' - ROUNDS <= 2 * Sum(scores)
              /\ 2 * Sum(scores) < 2 * ROUNDS * _avg' + ROUNDS
        /\ (_avg' # _avg) => Finalizes
        /\ MathRound(Sum(<<180, 150, 220, 190, 160>>), ROUNDS) = 180 ]_vars

\* Three of the five times are 1 and two are 0: the mean 0.6 is shown as 1.
C16_Witness ==
    /\ screen = "results" /\ Len(scores) = ROUNDS
    /\ Sum(scores) = 3 /\ _avg = 1

\* Two of the five times are 1: the mean 0.4 is shown as 0.
C16_WitnessDown ==
    /\ screen = "results" /\ Len(scores) = ROUNDS
    /\ Sum(scores) = 2 /\ _avg = 0

\* The handle field that holds a timer of that callback.
HandleOf(cb) ==
    CASE cb = "fake" -> _fakeTimer
      [] cb = "fakeRevert" -> _fakeRevert
      [] cb \in {"real", "realAfterFake"} -> _waitTimer
      [] cb \in {"tooEarlyPause", "resultPause"} -> _pauseTimer

\* C19: every pending timer of the round scheduler (flash, flash revert,
\* real change, pause) is held by the handle field of its kind (no handle
\* was overwritten while its timer was pending), no flash, flash-revert or
\* real-change timer is pending while state is paused or idle, a pause
\* timer is pending only while state is paused, and a step that begins a
\* round, an early click, a scored click and a reset each leave no timer of
\* the scheduler pending but the one they set (a reset none).
C19_OneLiveSetOfTimers ==
    /\ [](\A t \in Scheduled(timers) :
             /\ t.id = HandleOf(t.cb)
             /\ \A u \in timers : u.id = t.id => u = t)
    /\ [](state \in {"paused", "idle"} =>
             \A t \in timers : t.cb \notin RoundTimerKinds)
    /\ []((\E t \in timers : t.cb \in PauseTimerKinds) => state = "paused")
    /\ [][ /\ (_startGame \/ _tooEarlyPauseFired
                \/ (_resultPauseFired /\ state' = "waiting")) =>
                  (Cardinality(Scheduled(timers')) = 1
                     /\ \A t \in Scheduled(timers') : t.cb \in {"fake", "real"})
           /\ (_onGameClick /\ state \in {"waiting", "ready"}) =>
                  (Cardinality(Scheduled(timers')) = 1
                     /\ \A t \in Scheduled(timers') : t.cb \in PauseTimerKinds)
           /\ _goToIntro => Scheduled(timers') = {} ]_vars

\* An early click has been made in a later round: only its pause timer is
\* pending and no handle but _pauseTimer holds a timer.
C19_Witness ==
    /\ state = "paused" /\ bg = "tooEarly" /\ roundNum = 2
    /\ Cardinality(Scheduled(timers)) = 1
    /\ \E t \in timers : t.cb = "tooEarlyPause" /\ t.id = _pauseTimer
    /\ _waitTimer = NoTimer /\ _fakeTimer = NoTimer /\ _fakeRevert = NoTimer

\* A flash is on: its revert and the real change are both pending, the set
\* a click or a reset has to cancel.
C19_WitnessFlash ==
    /\ state = "waiting" /\ bg = "fake"
    /\ \E t \in timers : t.cb = "fakeRevert"
    /\ \E t \in timers : t.cb = "realAfterFake"

\* A callback of the round scheduler runs in this step.
TimerFires ==
    \/ _fakeTimerFired \/ _fakeRevertFired \/ _waitTimerFired
    \/ _tooEarlyPauseFired \/ _resultPauseFired

\* C20 as stated: a reset (_goToIntro) leaves no timer pending, whatever
\* the state it is made in, and sets the state idle; afterwards, while the
\* state is idle, no timer is pending and no timer callback runs.
C20_Original ==
    /\ [](state = "idle" => timers = {})
    /\ [][ /\ (_goToIntro => (timers' = {} /\ state' = "idle"))
           /\ (state = "idle" => ~ (TimerFires \/ _shareTimerFired)) ]_vars

\* C20, amended: a reset leaves no timer of the round scheduler pending
\* (the four handles are cancelled and cleared), whatever the state it is
\* made in, and sets the state idle; a share-feedback timer, which no
\* handle holds, stays pending through the reset, or is set after it when
\* the copy settles then, and fires later: setting it and its callback
\* change nothing but the timer table and leave the timers of the
\* scheduler as they are; while the state is idle no callback of the
\* scheduler runs, and no step but a start (_startGame) changes state,
\* roundNum or scores.
C20_ResetCancelsAllAndIdles ==
    /\ [](state = "idle" => Scheduled(timers) = {})
    /\ [][ /\ _goToIntro =>
                  /\ Scheduled(timers') = {} /\ state' = "idle"
                  /\ timers' = timers \ Scheduled(timers)
                  /\ _waitTimer' = NoTimer /\ _fakeTimer' = NoTimer
                  /\ _fakeRevert' = NoTimer /\ _pauseTimer' = NoTimer
           /\ state = "idle" => ~ TimerFires
           /\ (_shareTimerFired \/ copySettles) =>
                  /\ UNCHANGED <<state, roundNum, scores, changeAt, bg, screen,
                                 _waitTimer, _fakeTimer, _fakeRevert, _pauseTimer>>
                  /\ Scheduled(timers') = Scheduled(timers)
           /\ (state = "idle" /\ ~ _startGame) =>
                  UNCHANGED <<state, roundNum, scores>> ]_vars

\* The share button was clicked on the results screen and a reset made
\* before the feedback faded: idle, no timer of the scheduler pending, the
\* share-feedback timer still pending.
C20_Witness ==
    /\ state = "idle" /\ screen = "intro"
    /\ Scheduled(timers) = {} /\ \E t \in timers : t.cb = "share"
    /\ roundNum = ROUNDS /\ Len(scores) = ROUNDS

\* The share button was clicked on the results screen and a reset made
\* before the copy settled: idle, the writeText promise still pending.
C20_WitnessCopyPending ==
    /\ state = "idle" /\ screen = "intro" /\ copies > 0
    /\ timers = {} /\ roundNum = ROUNDS

\* A reset was made while the pause timer of the third scored round was
\* pending: idle, nothing pending, the round number and the times kept.
C20_WitnessInPause ==
    /\ state = "idle" /\ screen = "intro" /\ timers = {}
    /\ roundNum = 3 /\ Len(scores) = 3

(***************************************************************************)
(* The results screen: claims C13 to C15.                                  *)
(***************************************************************************)
\* C13: the commits of one session add at most one document to the
\* collection and hold at most one submit call in flight; a commit action
\* made when one has been made since the finalization (the first still
\* waiting for the store, or answered) changes nothing: no call is made, and
\* the stored rank result, the entry id and the rank display stay.
C13_OneCommitPerSession ==
    /\ [](inserts <= 1)
    /\ [](Cardinality({c \in saves : c.cur}) <= 1)
    /\ [][ /\ \A name \in Names :
                 (_submitted /\ _submitToLeaderboard(name)) => UNCHANGED vars
           /\ Len(store') <= Len(store) + 1
           /\ inserts' > inserts => (_submitted /\ addResponse) ]_vars

\* The commit of the session was answered with a rank, which is shown as
\* confirmed: a commit action here is the no-op.
C13_Witness ==
    /\ screen = "results" /\ _submitted /\ inserts = 1
    /\ _myRankResult # null /\ rankDisplay.cls = "confirmed"
    /\ saves = {}

\* The first commit is still waiting for add(): a second commit action here
\* is the no-op.
C13_WitnessAwaiting ==
    /\ screen = "results" /\ _submitted /\ inserts = 0
    /\ \E c \in saves : c.pc = "add"

\* A step in which a response of the store arrives.
Response ==
    \/ peekResponse \/ topResponse \/ addResponse \/ requeryResponse
    \/ savedTopResponse

\* C14: a failed query of peek gives the preview of "no rank" (null), a
\* failed add() or re-query of submit stores and shows "no rank" and adds
\* nothing, a failed query of getTop gives the empty list; no response
\* changes the round state machine or leaves a call behind that cannot go
\* on; and the intro screen always takes a start once the responses are in
\* (of the MaxGames starts explored), the results screen a reset.
C14_FailuresDegradeAndGameGoesOn ==
    /\ [][ /\ \A c \in shows :
                 /\ peekArrives(c, FALSE) =>
                       IF c.render = "done"
                         THEN rankDisplay' = [cls |-> "unranked", text |-> ""]
                         ELSE \E d \in shows' : d.peek = null
                 /\ topArrives(c, FALSE) => board' = [kind |-> "empty"]
           /\ \A c \in saves :
                 /\ (addArrives(c, FALSE) \/ requeryArrives(c, FALSE)) =>
                       /\ _myRankResult' = null /\ _myTs' = _myTs
                       /\ store' = store
                       /\ rankDisplay' = [cls  |-> "unranked",
                                          text |-> "Outside the top 100"]
                 /\ savedTopArrives(c, FALSE) => board' = [kind |-> "empty"]
           /\ Response =>
                 UNCHANGED <<state, roundNum, scores, changeAt, bg, screen,
                             timers, _waitTimer, _fakeTimer, _fakeRevert,
                             _pauseTimer, _avg, _submitted>> ]_vars
    /\ []((screen = "intro" /\ quiet /\ games < MaxGames) => ENABLED quietStart)
    /\ [](screen = "results" => ENABLED playAgainClick)
    /\ []((screen = "game" /\ state \in {"waiting", "ready"}) =>
              ENABLED steadyClick)
    /\ []((screen = "game" /\ state # "ready") => timers # {})

\* The list could not be fetched after the commit of an earlier session
\* (the collection has an entry, the list says it is empty); the next
\* session has been played to its end all the same.
C14_Witness ==
    /\ screen = "results" /\ Len(scores) = ROUNDS
    /\ Len(store) >= 1 /\ board = [kind |-> "empty"]
    /\ ~ _submitted /\ rankDisplay = [cls |-> "blank"]
    /\ \E c \in shows : c.peek = Pending /\ c.render = "pending"

\* The commit failed: "no rank" is stored and shown, nothing was added.
C14_WitnessSubmitFailed ==
    /\ screen = "results" /\ _submitted /\ inserts = 0 /\ saves = {}
    /\ _myRankResult = null
    /\ rankDisplay = [cls |-> "unranked", text |-> "Outside the top 100"]

\* C15: the finalization sends the query of peek and the query of the list
\* together (both are in flight after the step), the response that arrives
\* first, whichever it is, leaves the rank display as it is, and the one
\* that arrives second shows the preview (a rank or "no rank").
C15_PreviewShownAfterBothResolve ==
    /\ [][ /\ Finalizes =>
                 \E c \in shows' :
                     c.cur /\ c.peek = Pending /\ c.render = "pending"
           /\ \A c \in shows :
                 (\E ok \in BOOLEAN : peekArrives(c, ok) \/ topArrives(c, ok)) =>
                     IF c.peek = Pending /\ c.render = "pending"
                       THEN /\ rankDisplay' = rankDisplay
                            /\ \E d \in shows' :
                                  (d.peek = Pending) # (d.render = "pending")
                       ELSE /\ shows' = shows \ {c}
                            /\ rankDisplay'.cls \in {"preview", "unranked"} ]_vars

\* The response of peek is in with a rank, the list is still outstanding:
\* the rank display is still blank.
C15_Witness ==
    /\ screen = "results" /\ rankDisplay = [cls |-> "blank"]
    /\ \E c \in shows : c.peek \notin {Pending, null} /\ c.render = "pending"

\* The list was written first and the preview shown when peek returned.
C15_WitnessShown ==
    /\ screen = "results" /\ rankDisplay.cls = "preview" /\ shows = {}
    /\ board.kind = "rows" /\ saves = {} /\ ~ _submitted

(***************************************************************************)
(* Progress and the round counter: claims C21 and C22.                     *)
(***************************************************************************)
\* C21: with timers that fire, no reset, a player who clicks in the end
\* whenever the state is ready and clicks early only finitely often, every
\* round that is waiting becomes ready (with a flash pending or shown, and
\* with none), and a started session is finalized in the end, once (after
\* the finalization no step finalizes or changes the round state, the
\* times or the average again), with exactly ROUNDS recorded times, each
\* scored click having added one.
C21_RoundsReachReadyAndSessionFinalizes ==
    /\ (state = "waiting") ~> (state = "ready")
    /\ (state = "waiting" /\ \E t \in timers : t.cb = "fake") ~> (state = "ready")
    /\ (state = "waiting" /\ bg = "fake") ~> (state = "ready")
    /\ (state = "waiting" /\ \E t \in timers : t.cb = "real") ~> (state = "ready")
    /\ (screen = "game") ~> (screen = "results")
    /\ [](screen = "results" => Len(scores) = ROUNDS)
    /\ [][ /\ (Finalizes => (screen = "game" /\ Len(scores) = ROUNDS))
           /\ (screen = "results" =>
                  (~ Finalizes /\ UNCHANGED <<state, roundNum, scores, _avg, screen>>))
           /\ (Len(scores') > Len(scores) =>
                  (readyClick /\ Len(scores') = Len(scores) + 1)) ]_vars

\* A round whose flash is showing is waiting for its change after an early
\* click was made in the session.
C21_Witness ==
    /\ state = "waiting" /\ bg = "fake" /\ roundNum = 3 /\ Len(scores) = 2
    /\ \E t \in timers : t.cb = "realAfterFake"

\* The session was finalized after five scored rounds.
C21_WitnessFinalized ==
    /\ screen = "results" /\ Len(scores) = ROUNDS /\ timers = {}

\* C22: while the state is waiting or ready, roundNum is the number of
\* recorded times plus one and lies in 1 .. ROUNDS; in every state (before
\* the first start both are 0) roundNum is the number of recorded times or
\* that number plus one, and it is that number exactly while a scored round
\* is being held or the session is finalized.
C22_RoundNumTracksScores ==
    /\ (state \in {"waiting", "ready"} =>
            /\ roundNum = Len(scores) + 1
            /\ 1 <= roundNum /\ roundNum <= ROUNDS)
    /\ roundNum \in {Len(scores), Len(scores) + 1}
    /\ ((\E t \in timers : t.cb = "resultPause") => roundNum = Len(scores))
    /\ ((\E t \in timers : t.cb = "tooEarlyPause") => roundNum = Len(scores) + 1)

\* Round 4 is ready for its click, three times recorded.
C22_Witness ==
    /\ state = "ready" /\ roundNum = 4 /\ Len(scores) = 3 /\ screen = "game"

\* A reset during the pause of an early click in round 2: the state is idle
\* and roundNum is still one more than the number of recorded times.
C22_WitnessResetInPause ==
    /\ state = "idle" /\ screen = "intro" /\ roundNum = 2 /\ Len(scores) = 1

(***************************************************************************)
(* Responses that arrive late: claims C23 and C24.                         *)
(***************************************************************************)
\* C23: within one session (no finalization in between), once the rank
\* display shows the confirmed rank that submit returned, no step replaces
\* it by the preview rank, in whatever order the responses to the
\* session's peek query, list query and submit arrive.
C23_ConfirmedRankNeverReplacedByPreview ==
    [][ (rankDisplay.cls = "confirmed" /\ ~ Finalizes) =>
            rankDisplay'.cls # "preview" ]_vars

\* A step in which a response arrives that a session before the last
\* finalization asked for.
LateResponse ==
    \/ \E c \in shows, ok \in BOOLEAN :
           ~ c.cur /\ (peekArrives(c, ok) \/ topArrives(c, ok))
    \/ \E c \in saves, ok \in BOOLEAN :
           ~ c.cur /\ (addArrives(c, ok) \/ requeryArrives(c, ok)
                          \/ savedTopArrives(c, ok))

\* C24: a response to a peek, submit or list call that an earlier session
\* made, arriving after a later session was finalized, changes neither the
\* rank display, the stored rank result nor the stored entry id.
C24_LateResponseLeavesLaterSessionAlone ==
    [][ LateResponse => UNCHANGED <<rankDisplay, _myRankResult, _myTs>> ]_vars

(***************************************************************************)
(* Preview against commit, and the two ranking rules: claims C25 and C26.  *)
(***************************************************************************)
\* The collection without the document whose id is ref.
Without(st, ref) == SelectSeq(st, LAMBDA d : d.ts # ref)

\* What peek(score) returns on the collection as it was before the add() of
\* the submit call in progress.
PeekBefore == peekRank(queryTop(Without(store, sub.ref)), sub.score)

\* C25: with no failure and no other change to the collection, if peek on
\* the collection before the add() of submit(name, score) returns a rank r
\* and a tie flag t, submit returns a ranked result with rank r and isTied
\* t: in every window, a full one whose worst score is the score submitted
\* among them.
C25_SubmitAgreesWithPeek ==
    [][ (sub.pc = "added" /\ submitRequery(TRUE) /\ PeekBefore # null) =>
            /\ sub'.res # null
            /\ sub'.res.rank = PeekBefore.rank
            /\ sub'.res.isTied = PeekBefore.isTied ]_vars

\* C26: the rows getTop(n) returns are the first n documents of the window
\* (which is sorted by score), each with the rank 1 + the number of window
\* documents of strictly smaller score (below[s] for a row of score s),
\* whatever n is; and the row of an entry that submit has ranked over the
\* same window carries the rank submit returned.  The steps are those of a
\* getTop(n) call whose query succeeds (lbOp' holds what it returned).
C26_RowRankIsOnePlusBetterAndSubmitRank ==
    [][ \A n \in {TopRows, SIZE} :
            (lbOp.op = "none" /\ lbOp'.op = "getTop" /\ lbOp'.ok /\ lbOp'.n = n) =>
                LET w     == queryTop(store)
                    rows  == lbOp'.res
                    below == [s \in {w[j].score : j \in 1 .. Len(w)} |->
                                Cardinality({j \in 1 .. Len(w) : w[j].score < s})]
                IN  /\ Len(rows) = Min(n, Len(w))
                    /\ \A i \in 1 .. Len(rows) :
                          /\ rows[i].ts = w[i].ts
                          /\ rows[i].score = w[i].score
                          /\ rows[i].rank = below[w[i].score] + 1
                          /\ (sub.pc = "done" /\ sub.res # null
                                 /\ rows[i].ts = sub.ref) =>
                                rows[i].rank = sub.res.rank ]_vars

\* The entry submit ranked second, tied, is a row of the list getTop(10)
\* returned afterwards.
C26_Witness ==
    /\ sub.pc = "done" /\ sub.res # null /\ sub.res.rank = 2 /\ sub.res.isTied
    /\ lbOp.op = "getTop" /\ lbOp.ok /\ lbOp.n = TopRows
    /\ \E i \in 1 .. Len(lbOp.res) :
           lbOp.res[i].ts = sub.ref /\ lbOp.res[i].rank = 2

\* The list of 100 rows of a full window, in which submit ranked the entry
\* behind 98 better ones.
C26_WitnessFullWindow ==
    /\ sub.pc = "done" /\ sub.res # null /\ sub.res.rank = 99
    /\ lbOp.op = "getTop" /\ lbOp.ok /\ lbOp.n = SIZE /\ Len(lbOp.res) = SIZE
    /\ \E i \in 1 .. Len(lbOp.res) : lbOp.res[i].ts = sub.ref

=============================================================================
